---- MODULE Spec2Model ----
(***************************************************************************)
(* Model of the studyinuk backend: the REST handlers of server/routes.ts,  *)
(* the requireAuth middleware of server/supabaseAuth.ts and the            *)
(* DatabaseStorage methods (server/storage.ts) they call, over the tables  *)
(* users, applications and notifications of shared/schema.ts.              *)
(*                                                                         *)
(* Every route action is one HTTP request handled from the middleware to  *)
(* the response.  The request, its response, the storage methods it called *)
(* and the store it started from are kept in the state (req, resp, calls,  *)
(* pre) until the exchange is over, so that properties of a request are    *)
(* state predicates; Done ends the exchange and drops that record.         *)
(*                                                                         *)
(* Spec serves the requests one after the other.  StatsSpec applies the    *)
(* statistics computation to populations of users and applications,        *)
(* FanoutSpec serves POST /api/admin/notifications over user tables of one *)
(* to three rows, and AdminSpec serves the admin routes while the admin    *)
(* flag is edited in the database.  Three specifications run handlers      *)
(* statement by statement, interleaved at their awaits (flight holds the   *)
(* suspended handlers): RaceSpec one GET /api/admin/stats beside writes of *)
(* other requests, ProvisionSpec the requests of one identity, UpdateSpec  *)
(* the status updates of one application.                                  *)
(***************************************************************************)
EXTENDS Integers, Sequences, FiniteSets, TLC

\* ------------------------------------------------------------------ bounds
MaxApps == 1        \* applications rows a behaviour may create
MaxNotifs == 1      \* notifications rows a behaviour may create
MaxUsers == 40      \* users of a population the statistics are computed on
MaxRaceApps == 2    \* applications rows created beside a statistics call
MaxFanout == 3      \* notifications rows the broadcasts of a behaviour may create
MaxRacers == 2      \* requests of one identity in flight together
MaxUpdaters == 2    \* status updates of one application in flight together

\* ----------------------------------------------------------- input domains
\* Subject ids the identity provider can vouch for.
Subjects == {"u1", "u2"}
\* What the identity provider answers for a valid token: the subject and its
\* e-mail address.  Addresses are unique among the provider's accounts at any
\* one time, not over time (an address is free again once its account changed
\* it or was deleted), so a subject may come with an address that the users
\* table holds under another id.
ProviderUsers ==
  { [id |-> "u1", email |-> "a@example.com"], [id |-> "u2", email |-> "b@example.com"],
    [id |-> "u2", email |-> "a@example.com"] }
\* Authorization headers: absent, another scheme, a bearer token the
\* identity provider rejects, and a valid bearer token of each provider
\* account (email is the address the provider answers for the token).
AuthHeaders ==
  { [scheme |-> "", token |-> "", email |-> ""],
    [scheme |-> "Basic", token |-> "u1", email |-> ""],
    [scheme |-> "Bearer", token |-> "bad", email |-> ""] }
  \cup { [scheme |-> "Bearer", token |-> u.id, email |-> u.email] : u \in ProviderUsers }

\* The row set of users before the first request: one administrator (the
\* admin flag is only ever set directly in the database).
InitUsers ==
  << [id |-> "u1", email |-> "a@example.com", firstName |-> "", isAdmin |-> TRUE] >>

\* Catalog (seeded, immutable for the handlers modelled here).
Universities == { [id |-> 1, name |-> "University of Oxford"] }
Courses == { [id |-> 1, name |-> "Master of Computer Science", universityId |-> 1] }

\* selectedCourses values a client sends: none, a known course, an unknown one.
CourseLists == { << >>, << 1 >>, << 2 >> }

\* status values a submit body may carry ("" = no status key).
BodyStatuses == {"", "Visa Approved"}
\* userId values a submit body may carry ("" = no userId key).
BodyUserIds == {"", "u1"}
\* status values of PATCH .../status ("" = missing/empty, rejected with 400).
NewStatuses == {"", "Visa Approved"}

Undefined == [undefined |-> TRUE]

VARIABLES users, applications, notifications, req, resp, calls, pre, flight

vars == << users, applications, notifications, req, resp, calls, pre, flight >>

store == [users |-> users, applications |-> applications, notifications |-> notifications]

\* ------------------------------------------------------- DatabaseStorage
\* const [row] = await db.select()... : the first row or undefined.
First(rows) == IF Len(rows) = 0 THEN Undefined ELSE rows[1]

getUser(st, id) == First(SelectSeq(st.users, LAMBDA u : u.id = id))

\* A users row has the columns id, email, firstName and isAdmin; firstName
\* ("" for null) also stands for lastName and profileImageUrl, which every
\* statement writes along with it and none reads.
\* db.insert(users).values(userData) throws the unique violation 23505 when
\* a row holds the id (primary key) or the email (unique).
InsertUserThrows(st, userData) ==
  \E i \in DOMAIN st.users :
    st.users[i].id = userData.id \/ st.users[i].email = userData.email

\* The insert that does not throw: the columns userData gives, isAdmin
\* (which no caller puts into userData) at the column default false.
InsertUser(st, userData) ==
  [st EXCEPT !.users = Append(@, [id |-> userData.id, email |-> userData.email,
                                  firstName |-> userData.firstName,
                                  isAdmin |-> FALSE])]

\* Faulty variant: the conflicting row replaced by the values of the insert,
\* every other column back at its default.
UpdateUserReplace(st, userData) ==
  [st EXCEPT !.users =
     [i \in DOMAIN @ |->
        IF @[i].id = userData.id
        THEN [id |-> userData.id, email |-> @[i].email,
              firstName |-> userData.firstName, isAdmin |-> FALSE]
        ELSE @[i]]]

\* db.update(users).set({ firstName, lastName, profileImageUrl, updatedAt })
\* .where(eq(users.id, userData.id)): neither email nor isAdmin is in the
\* set list.
UpdateUser(st, userData) ==
  [st EXCEPT !.users =
     [i \in DOMAIN @ |->
        IF @[i].id = userData.id THEN [@[i] EXCEPT !.firstName = userData.firstName]
        ELSE @[i]]]

\* insert; on 23505 update the row of this id, if there is one.
upsertUser(st, userData) ==
  IF InsertUserThrows(st, userData) THEN UpdateUser(st, userData)
  ELSE InsertUser(st, userData)

\* ... returning(): const [user] is the inserted or updated row, undefined
\* when the update matched none.  st is the store after the statement.
Upserted(st, userData) == getUser(st, userData.id)

getUniversities == Universities

\* courses LEFT JOIN universities WHERE courses.id = id
getCourseById(id) ==
  LET found == { c \in Courses : c.id = id } IN
  IF found = {} THEN Undefined
  ELSE LET c == CHOOSE c \in found : TRUE
           us == { u \in Universities : u.id = c.universityId }
       IN [id |-> c.id, name |-> c.name, universityId |-> c.universityId,
           university |-> IF us = {} THEN Undefined ELSE CHOOSE u \in us : TRUE]

\* serial primary key: the next id of a table
NextId(rows) == Len(rows) + 1

\* Faulty variant: one application per user, a later submit overwriting the
\* row of the earlier one.
createApplicationPerUser(st, application) ==
  IF \E i \in DOMAIN st.applications : st.applications[i].userId = application.userId
  THEN [st EXCEPT !.applications =
          [i \in DOMAIN @ |->
             IF @[i].userId = application.userId
             THEN [@[i] EXCEPT !.selectedCourses = application.selectedCourses,
                               !.status = application.status]
             ELSE @[i]]]
  ELSE [st EXCEPT !.applications =
                Append(@, [id |-> NextId(st.applications),
                           userId |-> application.userId,
                           selectedCourses |-> application.selectedCourses,
                           status |-> application.status])]

createApplication(st, application) ==
  [st EXCEPT !.applications =
                Append(@, [id |-> NextId(st.applications),
                           userId |-> application.userId,
                           selectedCourses |-> application.selectedCourses,
                           status |-> application.status])]

\* Faulty variant: no foreign key on notifications.userId.
createNotificationThrowsUnreferenced(st, notification, fault) == fault

\* db.insert(notifications): the userId column references users.id, so the
\* insert throws for an unknown user; fault is a failure of the database
\* itself (connection, timeout).
createNotificationThrows(st, notification, fault) ==
  fault \/ getUser(st, notification.userId) = Undefined

\* Faulty variant: the row stored as read whatever the caller passed.
createNotificationAsRead(st, notification) ==
  [st EXCEPT !.notifications =
                Append(@, [id |-> NextId(st.notifications),
                           userId |-> notification.userId,
                           title |-> notification.title,
                           message |-> notification.message,
                           type |-> notification.type,
                           isRead |-> TRUE])]

createNotification(st, notification) ==
  [st EXCEPT !.notifications =
                Append(@, [id |-> NextId(st.notifications),
                           userId |-> notification.userId,
                           title |-> notification.title,
                           message |-> notification.message,
                           type |-> notification.type,
                           isRead |-> notification.isRead])]

\* update applications set status, updatedAt where id = id
updateApplicationStatus(st, id, status) ==
  IF id \in DOMAIN st.applications
  THEN [st EXCEPT !.applications[id].status = status]
  ELSE st

\* ... returning *: const [updated] is the updated row, undefined when the
\* update matched none.  st is the store after the update.
Updated(st, id) ==
  IF id \in DOMAIN st.applications THEN st.applications[id] ELSE Undefined

\* Faulty variant: the flag flipped instead of set.
markNotificationAsReadToggle(st, id) ==
  [st EXCEPT !.notifications =
     [i \in DOMAIN @ |-> IF @[i].id = id THEN [@[i] EXCEPT !.isRead = ~@] ELSE @[i]]]

\* update notifications set isRead = true where id = id
markNotificationAsRead(st, id) ==
  [st EXCEPT !.notifications =
     [i \in DOMAIN @ |-> IF @[i].id = id THEN [@[i] EXCEPT !.isRead = TRUE] ELSE @[i]]]

\* select * from users order by createdAt desc
RECURSIVE Reverse(_)
Reverse(s) == IF s = << >> THEN << >> ELSE Append(Reverse(Tail(s)), Head(s))

getUsers(st) == Reverse(st.users)

getAllApplications(st) == Reverse(st.applications)

\* ------------------------------------------------------------ responses
Json(code, body) == [code |-> code, body |-> body]

\* What a handler hands back: the store it leaves, the response it sent and
\* the storage methods it called, in order.
Outcome(st, response, called) == [st |-> st, resp |-> response, calls |-> called]

\* ---------------------------------------------------------- requireAuth
\* supabase.auth.getUser(token): the subject of a valid token, else an error.
VerifiedSubject(header) ==
  IF header.scheme = "Bearer" /\ header.token \in Subjects
  THEN header.token ELSE ""

\* The row requireAuth provisions for a subject: id and email from the
\* provider, the names from user_metadata.full_name, which the provider's
\* accounts here do not carry (null).
ProvisionData(id, email) == [id |-> id, email |-> email, firstName |-> ""]

\* Faulty variant: the token taken from the header whatever its scheme.
requireAuthAnyScheme(st, header) ==
  IF header.token \notin Subjects THEN
    [next |-> FALSE, st |-> st, user |-> Undefined, calls |-> << >>,
     resp |-> Json(401, [message |-> "Unauthorized"])]
  ELSE
    LET id == header.token
        dbUser == getUser(st, id)
    IN IF dbUser = Undefined
       THEN LET userData == ProvisionData(id, header.email)
                st2 == upsertUser(st, userData)
            IN [next |-> TRUE, st |-> st2, user |-> Upserted(st2, userData),
                calls |-> << "getUser", "upsertUser" >>, resp |-> Undefined]
       ELSE [next |-> TRUE, st |-> st, user |-> dbUser,
             calls |-> << "getUser" >>, resp |-> Undefined]

\* The middleware: 401 without a verified bearer token; otherwise req.user is
\* the local user row, or what upsertUser returned when there was none, and
\* the handler is called.
requireAuth(st, header) ==
  IF header.scheme # "Bearer" THEN
    [next |-> FALSE, st |-> st, user |-> Undefined, calls |-> << >>,
     resp |-> Json(401, [message |-> "Unauthorized"])]
  ELSE IF VerifiedSubject(header) = "" THEN
    [next |-> FALSE, st |-> st, user |-> Undefined, calls |-> << >>,
     resp |-> Json(401, [message |-> "Unauthorized"])]
  ELSE
    LET id == VerifiedSubject(header)
        dbUser == getUser(st, id)
    IN IF dbUser = Undefined
       THEN LET userData == ProvisionData(id, header.email)
                st2 == upsertUser(st, userData)
            IN [next |-> TRUE, st |-> st2, user |-> Upserted(st2, userData),
                calls |-> << "getUser", "upsertUser" >>, resp |-> Undefined]
       ELSE [next |-> TRUE, st |-> st, user |-> dbUser,
             calls |-> << "getUser" >>, resp |-> Undefined]

\* Faulty variant: the gate only checks that the row exists.
IsAdminUserAnyRow(user) == user # Undefined

\* Faulty variant: a user once admitted stays admitted (the decision kept in
\* a cache of the process; flight.admitted in AdminSpec).
IsAdminUserCached(user) ==
  user # Undefined /\ (user.isAdmin \/ user.id \in flight.admitted)

\* `!currentUser?.isAdmin` is false exactly for a row with the flag set.
IsAdminUser(user) == user # Undefined /\ user.isAdmin

Forbidden == Json(403, [message |-> "Admin access required"])

\* req.user.id throws a TypeError when the middleware left req.user
\* undefined; every handler that reads it does so inside its try block, whose
\* catch answers 500 with the message of the route.
NoUser(auth) == auth.user = Undefined

Failure(message) == Json(500, [message |-> message])

\* ------------------------------------------------ POST /api/auth/create-user
\* const userData = { id: req.user.id, email: req.user.email, firstName:
\* req.body.firstName || null, ... }: no other key of the body is read.
CreateUserData(user, body) ==
  [id |-> user.id, email |-> user.email, firstName |-> body.firstName]

postAuthCreateUser(st, request) ==
  LET auth == requireAuth(st, request.authorization) IN
  IF ~auth.next THEN Outcome(auth.st, auth.resp, auth.calls)
  ELSE IF NoUser(auth)
  THEN Outcome(auth.st, Failure("Failed to create user"), auth.calls)
  ELSE LET userData == CreateUserData(auth.user, request.body)
           st1 == upsertUser(auth.st, userData)
       IN Outcome(st1, Json(200, Upserted(st1, userData)),
                  auth.calls \o << "upsertUser" >>)

\* ------------------------------------------------- POST /api/applications
\* insertApplicationSchema.parse throws a ZodError for a body that lacks a
\* required column or whose selectedCourses is not an array of integers.
ParseThrows(body) == body.shape # "ok"

\* Faulty variant: the spread written last, so that the keys of the body win.
ApplicationDataBodyLast(body, userId) ==
  [selectedCourses |-> body.selectedCourses,
   userId |-> IF body.userId # "" THEN body.userId ELSE userId,
   status |-> IF body.status # "" THEN body.status ELSE "Submitted"]

\* Faulty variant: the spread written after userId, so that a userId key of
\* the body wins.
ApplicationDataBodyUserId(body, userId) ==
  [selectedCourses |-> body.selectedCourses,
   userId |-> IF body.userId # "" THEN body.userId ELSE userId,
   status |-> "Submitted"]

\* { ...req.body, userId, status: "Submitted" }: the later keys win, so a
\* userId or status key of the body is overwritten.
ApplicationData(body, userId) ==
  [selectedCourses |-> body.selectedCourses, userId |-> userId, status |-> "Submitted"]

\* The message of the submit notification: the generic text, replaced when
\* the first selected course resolves to a course with its university; a
\* throwing lookup is caught and leaves the generic text.
SubmitMessage(application, applicationData, lookupThrows) ==
  LET generic == [template |-> "Your application #{id} has been submitted",
                  id |-> application.id]
  IN IF Len(applicationData.selectedCourses) > 0 /\ ~lookupThrows
     THEN LET courseDetails == getCourseById(applicationData.selectedCourses[1])
          IN IF courseDetails # Undefined /\ courseDetails.university # Undefined
             THEN [template |-> "Your application to {university} for {course} has been submitted",
                   university |-> courseDetails.university.name,
                   course |-> courseDetails.name]
             ELSE generic
     ELSE generic

SubmitNotificationRow(userId, message) ==
  [userId |-> userId, title |-> "Application Submitted Successfully",
   message |-> message, type |-> "application", isRead |-> FALSE]

\* Faulty variant: no try around the course lookup: a throwing lookup ends the
\* block before the insert.
SubmitNotificationLookupUncaught(st, userId, application, applicationData, fault) ==
  LET notification ==
        SubmitNotificationRow(userId, SubmitMessage(application, applicationData, FALSE))
  IN IF (Len(applicationData.selectedCourses) > 0 /\ fault.getCourseById)
        \/ createNotificationThrows(st, notification, fault.createNotification = 1)
     THEN [st |-> st, threw |-> FALSE]
     ELSE [st |-> createNotification(st, notification), threw |-> FALSE]

\* Faulty variant: no try around the notification: a failing insert leaves the block.
SubmitNotificationUncaught(st, userId, application, applicationData, fault) ==
  LET notification ==
        SubmitNotificationRow(userId,
          SubmitMessage(application, applicationData, fault.getCourseById))
  IN IF createNotificationThrows(st, notification, fault.createNotification = 1)
     THEN [st |-> st, threw |-> TRUE]
     ELSE [st |-> createNotification(st, notification), threw |-> FALSE]

\* The try block around the submit notification: threw says whether an
\* exception leaves the block (the catch logs and swallows every one).
SubmitNotification(st, userId, application, applicationData, fault) ==
  LET notification ==
        SubmitNotificationRow(userId,
          SubmitMessage(application, applicationData, fault.getCourseById))
  IN IF createNotificationThrows(st, notification, fault.createNotification = 1)
     THEN [st |-> st, threw |-> FALSE]
     ELSE [st |-> createNotification(st, notification), threw |-> FALSE]

postApplications(st, request) ==
  LET auth == requireAuth(st, request.authorization) IN
  IF ~auth.next THEN Outcome(auth.st, auth.resp, auth.calls)
  ELSE IF NoUser(auth) \/ ParseThrows(request.body)
  THEN Outcome(auth.st, Failure("Failed to create application"), auth.calls)
  ELSE
    LET userId == auth.user.id
        applicationData == ApplicationData(request.body, userId)
        st1 == createApplication(auth.st, applicationData)
        application == st1.applications[Len(st1.applications)]
        lookup == IF Len(applicationData.selectedCourses) > 0
                  THEN << "getCourseById" >> ELSE << >>
        tried == SubmitNotification(st1, userId, application, applicationData, request.fault)
        called == auth.calls \o << "createApplication" >> \o lookup \o << "createNotification" >>
    IN IF tried.threw
       THEN Outcome(tried.st, Json(500, [message |-> "Failed to create application"]), called)
       ELSE Outcome(tried.st, Json(200, application), called)

\* ------------------------------- PATCH /api/admin/applications/:id/status
\* Faulty variant: a predicate that holds of every row: find returns the first one.
FindApplicationAny(apps, applicationId) == First(apps)

\* applications.find(app => app.id === applicationId)
FindApplication(apps, applicationId) ==
  First(SelectSeq(apps, LAMBDA app : app.id = applicationId))

\* The descriptor of the application's first selected course.
CourseInfo(application) ==
  IF Len(application.selectedCourses) > 0
  THEN LET cs == { c \in Courses : c.id = application.selectedCourses[1] } IN
       IF cs = {} THEN << "your application" >>
       ELSE LET course == CHOOSE c \in cs : TRUE
                us == { u \in getUniversities : u.id = course.universityId }
            IN IF us = {} THEN << course.name >>
               ELSE << course.name, " at ", (CHOOSE u \in us : TRUE).name >>
  ELSE << "your application" >>

StatusNotification(application, status) ==
  [userId |-> application.userId, type |-> "application",
   title |-> "Application Status Updated",
   message |-> [template |-> "Your application status for {courseInfo} has been updated to: {status}",
                courseInfo |-> CourseInfo(application), status |-> status],
   isRead |-> FALSE]

\* Faulty variant: the notification wrapped in a try whose catch only logs.
UpdateStatusBestEffort(st, applicationId, status, fault, called) ==
  LET application == FindApplication(getAllApplications(st), applicationId) IN
  IF application = Undefined
  THEN Outcome(st, Json(404, [message |-> "Application not found"]),
               called \o << "getAllApplications" >>)
  ELSE
    LET st1 == updateApplicationStatus(st, applicationId, status)
        notification == StatusNotification(application, status)
        called1 == called \o << "getAllApplications", "updateApplicationStatus",
                               "getCourses", "getUniversities", "createNotification" >>
    IN Outcome(IF createNotificationThrows(st1, notification, fault)
               THEN st1 ELSE createNotification(st1, notification),
               Json(200, Updated(st1, applicationId)), called1)

\* The handler past the admin gate and the status check.
UpdateStatus(st, applicationId, status, fault, called) ==
  LET application == FindApplication(getAllApplications(st), applicationId) IN
  IF application = Undefined
  THEN Outcome(st, Json(404, [message |-> "Application not found"]),
               called \o << "getAllApplications" >>)
  ELSE
    LET st1 == updateApplicationStatus(st, applicationId, status)
        updatedApplication == Updated(st1, applicationId)
        notification == StatusNotification(application, status)
        called1 == called \o << "getAllApplications", "updateApplicationStatus",
                               "getCourses", "getUniversities", "createNotification" >>
    IN IF createNotificationThrows(st1, notification, fault)
       THEN Outcome(st1, Json(500, [message |-> "Failed to update application status"]), called1)
       ELSE Outcome(createNotification(st1, notification), Json(200, updatedApplication), called1)

patchApplicationStatus(st, request) ==
  LET auth == requireAuth(st, request.authorization) IN
  IF ~auth.next THEN Outcome(auth.st, auth.resp, auth.calls)
  ELSE IF NoUser(auth)
  THEN Outcome(auth.st, Failure("Failed to update application status"), auth.calls)
  ELSE
    LET currentUser == getUser(auth.st, auth.user.id)
        called == auth.calls \o << "getUser" >>
    IN IF ~IsAdminUser(currentUser) THEN Outcome(auth.st, Forbidden, called)
       ELSE IF request.body.status = ""
       THEN Outcome(auth.st, Json(400, [message |-> "Status is required"]), called)
       ELSE UpdateStatus(auth.st, request.id, request.body.status,
                         request.fault.createNotification = 1, called)

\* ---------------------------------------- PATCH /api/notifications/:id/read
patchNotificationRead(st, request) ==
  LET auth == requireAuth(st, request.authorization) IN
  IF ~auth.next THEN Outcome(auth.st, auth.resp, auth.calls)
  ELSE Outcome(markNotificationAsRead(auth.st, request.id),
               Json(200, [success |-> TRUE]),
               auth.calls \o << "markNotificationAsRead" >>)

\* ------------------------------------------- POST /api/admin/notifications
\* Faulty variant: the listed ids ignored, every user taken.
TargetUsersEveryone(st, userIds) == [i \in DOMAIN getUsers(st) |-> getUsers(st)[i].id]

\* let targetUsers: every user, or the listed ids as { id } objects.
TargetUsers(st, userIds) ==
  IF Len(userIds) = 0
  THEN [i \in DOMAIN getUsers(st) |-> getUsers(st)[i].id]
  ELSE userIds

\* for (const user of targetUsers) { await createNotification; push }: the
\* loop from target i on; an insert that throws ends it with the rows
\* inserted so far in place.
RECURSIVE BroadcastLoop(_, _, _, _, _, _)
BroadcastLoop(st, targets, body, failAt, i, sent) ==
  IF i > Len(targets) THEN [st |-> st, threw |-> FALSE, sent |-> sent]
  ELSE LET notification == [userId |-> targets[i], type |-> body.type,
                            title |-> body.title, message |-> body.message,
                            isRead |-> FALSE]
       IN IF createNotificationThrows(st, notification, failAt = i)
          THEN [st |-> st, threw |-> TRUE, sent |-> sent]
          ELSE BroadcastLoop(createNotification(st, notification), targets, body,
                             failAt, i + 1, sent + 1)

postAdminNotifications(st, request) ==
  LET auth == requireAuth(st, request.authorization) IN
  IF ~auth.next THEN Outcome(auth.st, auth.resp, auth.calls)
  ELSE IF NoUser(auth)
  THEN Outcome(auth.st, Failure("Failed to send notification"), auth.calls)
  ELSE
    LET currentUser == getUser(auth.st, auth.user.id)
        called == auth.calls \o << "getUser" >>
        body == request.body
    IN IF ~IsAdminUser(currentUser) THEN Outcome(auth.st, Forbidden, called)
       ELSE IF body.type = "" \/ body.title = "" \/ body.message = ""
       THEN Outcome(auth.st,
                    Json(400, [message |-> "Missing required fields: type, title, message"]),
                    called)
       ELSE
         LET targets == TargetUsers(auth.st, body.userIds)
             loop == BroadcastLoop(auth.st, targets, body,
                                   request.fault.createNotification, 1, 0)
             called1 == called
                        \o (IF Len(body.userIds) = 0 THEN << "getUsers" >> ELSE << >>)
                        \o (IF Len(targets) > 0 THEN << "createNotification" >> ELSE << >>)
         IN IF loop.threw
            THEN Outcome(loop.st, Json(500, [message |-> "Failed to send notification"]), called1)
            ELSE Outcome(loop.st, Json(200, [success |-> TRUE, sent |-> loop.sent]), called1)

\* ------------------------------------------------- GET /api/admin/<view>
\* The rates are computed in the Number type, IEEE 754 binary64: n / d is
\* rounded to a double, the product with 100 is rounded again, and Math.round
\* takes the integer nearest to that double.  A significand has Precision
\* binary digits; it is kept as a numeral in base 2^LimbBits, least
\* significant limb first, the last limb holding the digits from
\* 2^(Precision - 1) up.  A positive double is [limbs, exp], standing for the
\* value of limbs times 2^exp.
Precision == 53
LimbBits == (Precision - 1) \div 4
Base == 2^LimbBits

\* limbs + k, the carry going up to the last limb.
RECURSIVE AddSmall(_, _)
AddSmall(limbs, k) ==
  IF k = 0 THEN limbs
  ELSE IF Len(limbs) = 1 THEN << limbs[1] + k >>
  ELSE << (limbs[1] + k) % Base >> \o AddSmall(Tail(limbs), (limbs[1] + k) \div Base)

\* limbs * k + carry.
RECURSIVE MulSmall(_, _, _)
MulSmall(limbs, k, carry) ==
  IF Len(limbs) = 1 THEN << limbs[1] * k + carry >>
  ELSE << (limbs[1] * k + carry) % Base >>
       \o MulSmall(Tail(limbs), k, (limbs[1] * k + carry) \div Base)

RECURSIVE BitLength(_)
BitLength(k) == IF k = 0 THEN 0 ELSE 1 + BitLength(k \div 2)

\* The least e with n * 2^e >= d.
RECURSIVE ScaleUp(_, _)
ScaleUp(n, d) == IF n >= d THEN 0 ELSE 1 + ScaleUp(2 * n, d)

\* The next count limbs of r / d for r < d, and what remains.
RECURSIVE LongDivision(_, _, _, _)
LongDivision(r, d, count, limbs) ==
  IF count = 0 THEN [limbs |-> limbs, rem |-> r]
  ELSE LongDivision((r * Base) % d, d, count - 1, << (r * Base) \div d >> \o limbs)

\* n / d for integers n, d > 0: the quotient to Precision digits, rounded to
\* nearest (ties to even) by what remains.
Divide(n, d) ==
  LET e == ScaleUp(n, d)
      f == ScaleUp(d, n + 1) - 1
      num == IF n < d THEN n * 2^e ELSE n
      den == IF n < d THEN d ELSE d * 2^f
      q == LongDivision(num - den, den, (Precision - 1) \div LimbBits, << >>)
      up == 2 * q.rem > den \/ (2 * q.rem = den /\ q.limbs[1] % 2 = 1)
  IN [limbs |-> AddSmall(q.limbs \o << 1 >>, IF up THEN 1 ELSE 0),
      exp |-> (IF n < d THEN 0 - e ELSE f) - (Precision - 1)]

\* x * 100: the exact product, rounded to nearest (ties to even) at the
\* digit that keeps Precision digits.
TimesHundred(x) ==
  LET product == MulSmall(x.limbs, 100, 0)
      drop == BitLength(product[Len(product)]) - 1
      low == product[1] % 2^drop
      odd == (product[1] \div 2^drop) % 2 = 1
      up == 2 * low > 2^drop \/ (2 * low = 2^drop /\ odd)
  IN [limbs |-> AddSmall([product EXCEPT ![1] = @ - low], IF up THEN 2^drop ELSE 0),
      exp |-> x.exp]

\* floor(value of limbs / 2^s), for a result that fits an integer.
RECURSIVE FloorShift(_, _, _)
FloorShift(limbs, s, i) ==
  IF i > Len(limbs) THEN 0
  ELSE LET w == LimbBits * (i - 1)
       IN (IF w >= s THEN limbs[i] * 2^(w - s)
           ELSE IF s - w > 2 * LimbBits THEN 0
           ELSE limbs[i] \div 2^(s - w))
          + FloorShift(limbs, s, i + 1)

\* Math.round(x) for a double 0 < x < 2^(Precision - 1): the integer part,
\* plus one when the fraction is at least one half.
MathRound(x) == (FloorShift(x.limbs, (0 - x.exp) - 1, 1) + 1) \div 2

\* Math.round((n / d) * 100) for d > 0.
RoundPercent(n, d) == IF n = 0 THEN 0 ELSE MathRound(TimesHundred(Divide(n, d)))

\* Faulty variant: a rate without a denominator taken as 100.
StatsEmptyIsFull(allUsers, allApplications, allCourses, allUniversities) ==
  LET usersWithApplications ==
        { allApplications[i].userId : i \in DOMAIN allApplications }
      usersWithVisaApproved ==
        { allApplications[i].userId :
            i \in { j \in DOMAIN allApplications :
                      allApplications[j].status = "Visa Approved" } }
  IN [totalUsers |-> Len(allUsers),
      totalApplications |-> Len(allApplications),
      totalCourses |-> Cardinality(allCourses),
      totalUniversities |-> Cardinality(allUniversities),
      conversionRate |->
        IF Len(allUsers) > 0
        THEN RoundPercent(Cardinality(usersWithApplications), Len(allUsers)) ELSE 100,
      finalConversionRate |->
        IF Cardinality(usersWithApplications) > 0
        THEN RoundPercent(Cardinality(usersWithVisaApproved),
                          Cardinality(usersWithApplications)) ELSE 100]

\* const stats = { ... } from the rows the four reads returned (the two
\* ...ThisWeek counts compare createdAt with the clock and are left out).
Stats(allUsers, allApplications, allCourses, allUniversities) ==
  LET usersWithApplications ==
        { allApplications[i].userId : i \in DOMAIN allApplications }
      usersWithVisaApproved ==
        { allApplications[i].userId :
            i \in { j \in DOMAIN allApplications :
                      allApplications[j].status = "Visa Approved" } }
  IN [totalUsers |-> Len(allUsers),
      totalApplications |-> Len(allApplications),
      totalCourses |-> Cardinality(allCourses),
      totalUniversities |-> Cardinality(allUniversities),
      conversionRate |->
        IF Len(allUsers) > 0
        THEN RoundPercent(Cardinality(usersWithApplications), Len(allUsers)) ELSE 0,
      finalConversionRate |->
        IF Cardinality(usersWithApplications) > 0
        THEN RoundPercent(Cardinality(usersWithVisaApproved),
                          Cardinality(usersWithApplications)) ELSE 0]

\* The computation on a store read in one go.
ComputeStats(st) == Stats(getUsers(st), getAllApplications(st), Courses, getUniversities)

\* GET /api/admin-dashboard-stats: behind requireAuth only (req.user?.id is
\* logged, nothing else is read of req.user); the rate is taken from the
\* number of applications.
getAdminDashboardStats(st, request) ==
  LET auth == requireAuth(st, request.authorization) IN
  IF ~auth.next THEN Outcome(auth.st, auth.resp, auth.calls)
  ELSE LET allUsers == getUsers(auth.st)
           allApplications == getAllApplications(auth.st)
       IN Outcome(auth.st,
                  Json(200, [totalUsers |-> Len(allUsers),
                             totalApplications |-> Len(allApplications),
                             totalCourses |-> Cardinality(Courses),
                             totalUniversities |-> Cardinality(getUniversities),
                             conversionRate |->
                               IF Len(allUsers) > 0
                               THEN RoundPercent(Len(allApplications), Len(allUsers))
                               ELSE 0]),
                  auth.calls \o << "getUsers", "getAllApplications",
                                   "getCourses", "getUniversities" >>)

AdminGate(st, request, failure) ==
  LET auth == requireAuth(st, request.authorization) IN
  IF ~auth.next THEN [next |-> FALSE, out |-> Outcome(auth.st, auth.resp, auth.calls)]
  ELSE IF NoUser(auth)
  THEN [next |-> FALSE, out |-> Outcome(auth.st, Failure(failure), auth.calls)]
  ELSE IF ~IsAdminUser(getUser(auth.st, auth.user.id))
  THEN [next |-> FALSE, out |-> Outcome(auth.st, Forbidden, auth.calls \o << "getUser" >>)]
  ELSE [next |-> TRUE, out |-> Outcome(auth.st, Undefined, auth.calls \o << "getUser" >>)]

getAdminStats(st, request) ==
  LET gate == AdminGate(st, request, "Failed to fetch stats") IN
  IF ~gate.next THEN gate.out
  ELSE Outcome(gate.out.st, Json(200, ComputeStats(gate.out.st)),
               gate.out.calls \o << "getUsers", "getAllApplications",
                                    "getCourses", "getUniversities" >>)

getAdminUsers(st, request) ==
  LET gate == AdminGate(st, request, "Failed to fetch users") IN
  IF ~gate.next THEN gate.out
  ELSE Outcome(gate.out.st, Json(200, [users |-> getUsers(gate.out.st)]),
               gate.out.calls \o << "getUsers" >>)

getAdminApplications(st, request) ==
  LET gate == AdminGate(st, request, "Failed to fetch applications") IN
  IF ~gate.next THEN gate.out
  ELSE Outcome(gate.out.st, Json(200, [applications |-> getAllApplications(gate.out.st)]),
               gate.out.calls \o << "getAllApplications" >>)

\* One { date, count: 1 } per user and { date, count: 1, status } per
\* application; the dates are not modelled.
getAdminAnalytics(st, request) ==
  LET gate == AdminGate(st, request, "Failed to fetch analytics") IN
  IF ~gate.next THEN gate.out
  ELSE LET us == getUsers(gate.out.st)
           apps == getAllApplications(gate.out.st)
       IN Outcome(gate.out.st,
                  Json(200, [userRegistrations |-> [i \in DOMAIN us |-> [count |-> 1]],
                             applicationSubmissions |->
                               [i \in DOMAIN apps |-> [count |-> 1, status |-> apps[i].status]]]),
                  gate.out.calls \o << "getUsers", "getAllApplications" >>)

\* --------------------------------------------------------------- requests
NoFault == [getCourseById |-> FALSE, createNotification |-> 0]

Request(route, authorization, id, body, fault) ==
  [route |-> route, authorization |-> authorization, id |-> id, body |-> body,
   fault |-> fault]

Verified == { h \in AuthHeaders : VerifiedSubject(h) # "" }
Unverified == AuthHeaders \ Verified

\* req.body of a request sent without a body, as the handler of the route
\* reads it: no key is there.
EmptyBody(route) ==
  IF route = "POST /api/applications"
  THEN [shape |-> "missing field", selectedCourses |-> << >>, status |-> "", userId |-> ""]
  ELSE IF route = "PATCH /api/admin/applications/:id/status" THEN [status |-> ""]
  ELSE IF route = "POST /api/admin/notifications"
  THEN [userIds |-> << >>, type |-> "", title |-> "", message |-> ""]
  ELSE IF route = "POST /api/auth/create-user" THEN [firstName |-> "", isAdmin |-> FALSE]
  ELSE Undefined

\* The requests of a route are enumerated as the code reads them: a request
\* the middleware rejects carries no body, a body the handler rejects no
\* fault, and a fault is drawn only for a call the handler makes.
Rejected(route) == { Request(route, h, 0, EmptyBody(route), NoFault) : h \in Unverified }

\* Bodies of POST /api/applications: complete ones with every choice of
\* courses and status, one lacking a required field and one whose
\* selectedCourses is not an array.
SubmitBodies ==
  { [shape |-> "ok", selectedCourses |-> cs, status |-> s, userId |-> u] :
      cs \in CourseLists, s \in BodyStatuses, u \in BodyUserIds }
  \cup { [shape |-> sh, selectedCourses |-> << >>, status |-> "", userId |-> ""] :
           sh \in {"missing field", "selectedCourses not an array"} }

SubmitFaults(body) ==
  IF body.shape # "ok" THEN { NoFault }
  ELSE { [getCourseById |-> l, createNotification |-> n] :
           l \in (IF Len(body.selectedCourses) > 0 THEN BOOLEAN ELSE {FALSE}),
           n \in 0..1 }

SubmitRequests ==
  Rejected("POST /api/applications")
  \cup UNION { { Request("POST /api/applications", h, 0, b, f) : f \in SubmitFaults(b) } :
                 h \in Verified, b \in SubmitBodies }

\* PATCH .../status: an empty status, and a status for every id up to one
\* past the last row, with and without a failing notification insert.
StatusRequests ==
  LET route == "PATCH /api/admin/applications/:id/status" IN
  Rejected(route)
  \cup { Request(route, h, 1, [status |-> ""], NoFault) : h \in Verified }
  \cup { Request(route, h, id, [status |-> s],
                 [getCourseById |-> FALSE, createNotification |-> n]) :
           h \in Verified, id \in 1..(MaxApps + 1), s \in NewStatuses \ {""}, n \in 0..1 }

ReadRequests ==
  LET route == "PATCH /api/notifications/:id/read" IN
  Rejected(route)
  \cup { Request(route, h, id, Undefined, NoFault) :
           h \in Verified, id \in 1..(MaxNotifs + 1) }

\* Explicit recipient lists of a broadcast: none (everyone), a subject, an
\* id that is no user, and a subject followed by such an id.
BroadcastUserIds == { << >>, << "u2" >>, << "u9" >>, << "u1", "u9" >> }

BroadcastRequests ==
  LET route == "POST /api/admin/notifications" IN
  Rejected(route)
  \cup { Request(route, h, 0,
                 [userIds |-> << >>, type |-> "info", title |-> "", message |-> "text"],
                 NoFault) : h \in Verified }
  \cup { Request(route, h, 0,
                 [userIds |-> ids, type |-> "info", title |-> "Announcement",
                  message |-> "text"],
                 [getCourseById |-> FALSE, createNotification |-> n]) :
           h \in Verified, ids \in BroadcastUserIds, n \in 0..2 }

\* Bodies of POST /api/auth/create-user here: none, and one with an isAdmin
\* key (bodies with a name: ProvisionSpec).
CreateUserRequests ==
  LET route == "POST /api/auth/create-user" IN
  Rejected(route)
  \cup { Request(route, h, 0, b, NoFault) :
           h \in Verified,
           b \in { EmptyBody(route), [firstName |-> "", isAdmin |-> TRUE] } }

AdminReadRequests(route) ==
  { Request(route, h, 0, Undefined, NoFault) : h \in AuthHeaders }

\* ------------------------------------------------------------------ state
\* No request being served.
NoRequest == Request("", [scheme |-> "", token |-> "", email |-> ""], 0, Undefined, NoFault)

Idle == req = NoRequest

\* No handler suspended at an await.
NoFlight == [pc |-> "none"]

Init ==
  /\ users = InitUsers
  /\ applications = << >>
  /\ notifications = << >>
  /\ req = NoRequest
  /\ resp = Json(0, Undefined)
  /\ calls = << >>
  /\ pre = [users |-> InitUsers, applications |-> << >>, notifications |-> << >>]
  /\ flight = NoFlight

WithinBounds(st) ==
  /\ Len(st.applications) <= MaxApps
  /\ Len(st.notifications) <= MaxNotifs

\* A request handled from the middleware to the response: the store it
\* leaves, the response and the record of the step.
Record(request, out) ==
  /\ users' = out.st.users
  /\ applications' = out.st.applications
  /\ notifications' = out.st.notifications
  /\ req' = request
  /\ resp' = out.resp
  /\ calls' = out.calls
  /\ pre' = store

Exchange(request, out) ==
  /\ Record(request, out)
  /\ UNCHANGED flight

\* One request served, within the bounds.
Serve(request, out) ==
  /\ Idle
  /\ WithinBounds(out.st)
  /\ Exchange(request, out)

PostAuthCreateUser ==
  \E request \in CreateUserRequests : Serve(request, postAuthCreateUser(store, request))

PostApplications ==
  \E request \in SubmitRequests : Serve(request, postApplications(store, request))

PatchApplicationStatus ==
  \E request \in StatusRequests : Serve(request, patchApplicationStatus(store, request))

PatchNotificationRead ==
  \E request \in ReadRequests : Serve(request, patchNotificationRead(store, request))

PostAdminNotifications ==
  \E request \in BroadcastRequests : Serve(request, postAdminNotifications(store, request))

GetAdminDashboardStats ==
  \E request \in AdminReadRequests("GET /api/admin-dashboard-stats") :
    Serve(request, getAdminDashboardStats(store, request))

GetAdminStats ==
  \E request \in AdminReadRequests("GET /api/admin/stats") :
    Serve(request, getAdminStats(store, request))

GetAdminUsers ==
  \E request \in AdminReadRequests("GET /api/admin/users") :
    Serve(request, getAdminUsers(store, request))

GetAdminApplications ==
  \E request \in AdminReadRequests("GET /api/admin/applications") :
    Serve(request, getAdminApplications(store, request))

GetAdminAnalytics ==
  \E request \in AdminReadRequests("GET /api/admin/analytics") :
    Serve(request, getAdminAnalytics(store, request))

\* The response is sent: the request and response objects of the exchange
\* are gone, the store stays.
Done ==
  /\ ~Idle
  /\ req' = NoRequest
  /\ resp' = Json(0, Undefined)
  /\ calls' = << >>
  /\ pre' = store
  /\ UNCHANGED << users, applications, notifications, flight >>

\* ------------------------------------------- the statistics on populations
\* computeStats as a function of the rows it reads, applied to populations of
\* users and applications.
UserId(i) == "u" \o ToString(i)

\* A users table of total rows of which the first owners own one application
\* each, the first approved of them in status "Visa Approved"; second, when
\* not "", is the status of a second application of the first user.
Population(total, owners, approved, second) ==
  [users |-> [i \in 1..total |->
                [id |-> UserId(i), email |-> UserId(i) \o "@example.com", firstName |-> "",
                 isAdmin |-> i = 1]],
   applications |->
     [i \in 1..owners |->
        [id |-> i, userId |-> UserId(i), selectedCourses |-> << >>,
         status |-> IF i <= approved THEN "Visa Approved" ELSE "Submitted"]]
     \o (IF second = "" THEN << >>
         ELSE << [id |-> owners + 1, userId |-> UserId(1), selectedCourses |-> << >>,
                  status |-> second] >>),
   notifications |-> << >>]

\* The catalog the call reads: empty, or seeded.
Catalogs ==
  { [courses |-> {}, universities |-> {}],
    [courses |-> Courses, universities |-> Universities] }

StatsRoute == "GET /api/admin/stats"

StatsInit ==
  /\ \E total \in 0..MaxUsers, second \in {"", "Submitted", "Visa Approved"} :
       \E owners \in 0..total :
         \E approved \in 0..owners :
           LET p == Population(total, owners, approved, second) IN
           /\ p.applications # << >> => p.users # << >>
           /\ users = p.users
           /\ applications = p.applications
           /\ notifications = p.notifications
           /\ pre = p
  /\ req = NoRequest
  /\ resp = Json(0, Undefined)
  /\ calls = << >>
  /\ flight = NoFlight

\* The four reads of the handler and the computation on what they returned.
ApplyStats ==
  /\ Idle
  /\ \E catalog \in Catalogs :
       /\ req' = Request(StatsRoute, NoRequest.authorization, 0, catalog, NoFault)
       /\ resp' = Json(200, Stats(getUsers(store), getAllApplications(store),
                                  catalog.courses, catalog.universities))
  /\ calls' = << "getUsers", "getAllApplications", "getCourses", "getUniversities" >>
  /\ pre' = store
  /\ UNCHANGED << users, applications, notifications, flight >>

StatsNext == ApplyStats

StatsSpec == StatsInit /\ [][StatsNext]_vars

\* ------------------------------------- broadcasts to tables of several users
\* POST /api/admin/notifications on users tables of one to three rows, the
\* administrator first.
UserTables ==
  { InitUsers,
    InitUsers \o << [id |-> "u2", email |-> "b@example.com", firstName |-> "",
                      isAdmin |-> FALSE] >>,
    InitUsers \o << [id |-> "u2", email |-> "b@example.com", firstName |-> "",
                      isAdmin |-> FALSE],
                    [id |-> "u3", email |-> "c@example.com", firstName |-> "",
                      isAdmin |-> FALSE] >> }

\* Recipient lists: none (everyone), one user, two users, an unknown id
\* after a user, and every user in another order than the table's.
FanoutUserIds ==
  { << >>, << "u2" >>, << "u3", "u2" >>, << "u1", "u9" >>, << "u2", "u3", "u1" >> }

\* Broadcasts with every field, the insert failing for no recipient or for
\* the n-th one.
FanoutRequests ==
  Rejected("POST /api/admin/notifications")
  \cup { Request("POST /api/admin/notifications", h, 0,
                 [userIds |-> ids, type |-> "critical", title |-> "Office closed",
                  message |-> "text"],
                 [getCourseById |-> FALSE, createNotification |-> n]) :
           h \in Verified, ids \in FanoutUserIds, n \in 0..MaxFanout }

FanoutInit ==
  /\ \E table \in UserTables :
       /\ users = table
       /\ pre = [users |-> table, applications |-> << >>, notifications |-> << >>]
  /\ applications = << >>
  /\ notifications = << >>
  /\ req = NoRequest
  /\ resp = Json(0, Undefined)
  /\ calls = << >>
  /\ flight = NoFlight

Broadcast ==
  \E request \in FanoutRequests :
    /\ Idle
    /\ Len(postAdminNotifications(store, request).st.notifications) <= MaxFanout
    /\ Exchange(request, postAdminNotifications(store, request))

FanoutNext ==
  \/ Broadcast
  \/ Done

FanoutSpec == FanoutInit /\ [][FanoutNext]_vars

\* ---------------------------- GET /api/admin/stats beside other requests
\* The handler of one GET /api/admin/stats runs await by await: flight holds
\* the await it is suspended at (pc), the rows its reads have returned and,
\* for the properties, every state the store has been in since its first
\* read was due (seen).  Between two of its steps other requests execute
\* their statements on the store, each statement atomic: the insert of a
\* user row by requireAuth, the insert of an application by a submit, the
\* update of a status by a status update.
\* flight once the store has become st.
Seeing(fl, st) ==
  IF fl.pc \in {"none", "done"} THEN fl ELSE [fl EXCEPT !.seen = @ \cup {st}]

RaceInit ==
  /\ users = InitUsers
  /\ applications = << >>
  /\ notifications = << >>
  /\ req = NoRequest
  /\ resp = Json(0, Undefined)
  /\ calls = << >>
  /\ pre = [users |-> InitUsers, applications |-> << >>, notifications |-> << >>]
  /\ flight = NoFlight

\* The request arrives: the middleware and the admin check, which either
\* answer it or let the handler go on to its reads.
StatsBegin ==
  /\ flight.pc = "none"
  /\ \E request \in AdminReadRequests(StatsRoute) :
       LET gate == AdminGate(store, request, "Failed to fetch stats") IN
       /\ req' = request
       /\ users' = gate.out.st.users
       /\ calls' = gate.out.calls
       /\ resp' = IF gate.next THEN resp ELSE gate.out.resp
       /\ flight' = IF gate.next
                    THEN [pc |-> "getUsers", allUsers |-> << >>, allApplications |-> << >>,
                          allCourses |-> {}, allUniversities |-> {},
                          seen |-> {gate.out.st}]
                    ELSE [pc |-> "done"]
  /\ pre' = store
  /\ UNCHANGED << applications, notifications >>

StatsGetUsers ==
  /\ flight.pc = "getUsers"
  /\ flight' = [flight EXCEPT !.allUsers = getUsers(store), !.pc = "getAllApplications"]
  /\ calls' = Append(calls, "getUsers")
  /\ UNCHANGED << users, applications, notifications, req, resp, pre >>

StatsGetAllApplications ==
  /\ flight.pc = "getAllApplications"
  /\ flight' = [flight EXCEPT !.allApplications = getAllApplications(store),
                               !.pc = "getCourses"]
  /\ calls' = Append(calls, "getAllApplications")
  /\ UNCHANGED << users, applications, notifications, req, resp, pre >>

StatsGetCourses ==
  /\ flight.pc = "getCourses"
  /\ flight' = [flight EXCEPT !.allCourses = Courses, !.pc = "getUniversities"]
  /\ calls' = Append(calls, "getCourses")
  /\ UNCHANGED << users, applications, notifications, req, resp, pre >>

StatsGetUniversities ==
  /\ flight.pc = "getUniversities"
  /\ flight' = [flight EXCEPT !.allUniversities = getUniversities, !.pc = "respond"]
  /\ calls' = Append(calls, "getUniversities")
  /\ UNCHANGED << users, applications, notifications, req, resp, pre >>

\* stats computed from what the reads returned; res.json(stats).
StatsRespond ==
  /\ flight.pc = "respond"
  /\ resp' = Json(200, Stats(flight.allUsers, flight.allApplications,
                             flight.allCourses, flight.allUniversities))
  /\ flight' = [flight EXCEPT !.pc = "done"]
  /\ UNCHANGED << users, applications, notifications, req, calls, pre >>

\* A statement of another request: requireAuth inserts the row of a caller
\* it has found none for.
OtherUpsertUser ==
  /\ flight.pc # "done"
  /\ \E account \in ProviderUsers :
       LET userData == ProvisionData(account.id, account.email) IN
       /\ getUser(store, userData.id) = Undefined
       /\ upsertUser(store, userData) # store
       /\ users' = upsertUser(store, userData).users
       /\ flight' = Seeing(flight, upsertUser(store, userData))
  /\ UNCHANGED << applications, notifications, req, resp, calls, pre >>

\* A statement of another request: a submit inserts its application.
OtherCreateApplication ==
  /\ flight.pc # "done"
  /\ Len(applications) < MaxRaceApps
  /\ \E i \in DOMAIN users :
       LET applicationData ==
             ApplicationData([shape |-> "ok", selectedCourses |-> << >>, status |-> "",
                              userId |-> ""],
                             users[i].id)
       IN /\ applications' = createApplication(store, applicationData).applications
          /\ flight' = Seeing(flight, createApplication(store, applicationData))
  /\ UNCHANGED << users, notifications, req, resp, calls, pre >>

\* A statement of another request: an admin status update writes the status.
OtherUpdateApplicationStatus ==
  /\ flight.pc # "done"
  /\ \E id \in DOMAIN applications, status \in NewStatuses \ {""} :
       /\ applications[id].status # status
       /\ applications' = updateApplicationStatus(store, id, status).applications
       /\ flight' = Seeing(flight, updateApplicationStatus(store, id, status))
  /\ UNCHANGED << users, notifications, req, resp, calls, pre >>

RaceNext ==
  \/ StatsBegin
  \/ StatsGetUsers
  \/ StatsGetAllApplications
  \/ StatsGetCourses
  \/ StatsGetUniversities
  \/ StatsRespond
  \/ OtherUpsertUser
  \/ OtherCreateApplication
  \/ OtherUpdateApplicationStatus

RaceSpec == RaceInit /\ [][RaceNext]_vars

\* --------------------------- admin requests while the admin flag is edited
\* The admin flag is set and cleared directly in the database (no route
\* writes it) between the requests to the admin routes.  The store starts
\* with one application, that of a submit of the administrator whose
\* notification insert failed.  flight keeps, for the properties, the users
\* an earlier request has admitted past the admin check and those it has
\* refused.
SubmittedStore ==
  postApplications([users |-> InitUsers, applications |-> << >>, notifications |-> << >>],
                   Request("POST /api/applications",
                           [scheme |-> "Bearer", token |-> "u1", email |-> "a@example.com"],
                           0,
                           [shape |-> "ok", selectedCourses |-> << 1 >>, status |-> "",
                            userId |-> ""],
                           [getCourseById |-> FALSE, createNotification |-> 1])).st

AdminInit ==
  /\ users = SubmittedStore.users
  /\ applications = SubmittedStore.applications
  /\ notifications = SubmittedStore.notifications
  /\ req = NoRequest
  /\ resp = Json(0, Undefined)
  /\ calls = << >>
  /\ pre = SubmittedStore
  /\ flight = [pc |-> "admin", admitted |-> {}, refused |-> {}]

\* update users set is_admin = flag where id = the id of row i
DatabaseSetAdmin ==
  /\ Idle
  /\ \E i \in DOMAIN users, flag \in BOOLEAN :
       /\ users[i].isAdmin # flag
       /\ users' = [users EXCEPT ![i].isAdmin = flag]
       /\ pre' = [store EXCEPT !.users = [users EXCEPT ![i].isAdmin = flag]]
  /\ UNCHANGED << applications, notifications, req, resp, calls, flight >>

\* flight after a request to an admin route: a caller with a user row was
\* refused by the admin check (403) or admitted past it.
Decided(fl, request, out) ==
  LET id == VerifiedSubject(request.authorization) IN
  IF id = "" \/ getUser(out.st, id) = Undefined THEN fl
  ELSE IF out.resp.code = 403 THEN [fl EXCEPT !.refused = @ \cup {id}]
  ELSE [fl EXCEPT !.admitted = @ \cup {id}]

AdminServe(request, out) ==
  /\ Idle
  /\ WithinBounds(out.st)
  /\ Record(request, out)
  /\ flight' = Decided(flight, request, out)

AdminRequest ==
  \/ \E request \in StatusRequests :
       AdminServe(request, patchApplicationStatus(store, request))
  \/ \E request \in BroadcastRequests :
       AdminServe(request, postAdminNotifications(store, request))
  \/ \E request \in AdminReadRequests("GET /api/admin/stats") :
       AdminServe(request, getAdminStats(store, request))
  \/ \E request \in AdminReadRequests("GET /api/admin/users") :
       AdminServe(request, getAdminUsers(store, request))
  \/ \E request \in AdminReadRequests("GET /api/admin/applications") :
       AdminServe(request, getAdminApplications(store, request))
  \/ \E request \in AdminReadRequests("GET /api/admin/analytics") :
       AdminServe(request, getAdminAnalytics(store, request))

AdminNext ==
  \/ AdminRequest
  \/ DatabaseSetAdmin
  \/ Done

AdminSpec == AdminInit /\ [][AdminNext]_vars

\* ------------------------------- concurrent requests of one identity
\* Up to MaxRacers requests carrying the token of one provider account are
\* in flight together, each GET /api/auth/user or POST /api/auth/create-user.
\* flight.handlers holds one record per request: the statement it is
\* suspended at (pc), req.user once the middleware has set it and the
\* response once sent.  A step is one statement on the store, atomic, with
\* the code that follows it up to the next statement.
AuthUserRoute == "GET /api/auth/user"
CreateUserRoute == "POST /api/auth/create-user"

\* What the racing requests are: route and body.
Racers ==
  { [route |-> AuthUserRoute, body |-> Undefined] }
  \cup { [route |-> CreateUserRoute, body |-> [firstName |-> n, isAdmin |-> TRUE]] :
           n \in {"", "Ann"} }

RECURSIVE Lineups(_)
Lineups(n) ==
  IF n = 0 THEN { << >> }
  ELSE { Append(l, r) : l \in Lineups(n - 1), r \in Racers }

ProvisionInit ==
  /\ users = InitUsers
  /\ applications = << >>
  /\ notifications = << >>
  /\ req = NoRequest
  /\ resp = Json(0, Undefined)
  /\ calls = << >>
  /\ pre = [users |-> InitUsers, applications |-> << >>, notifications |-> << >>]
  /\ \E account \in ProviderUsers, n \in 1..MaxRacers :
       \E lineup \in Lineups(n) :
         flight = [pc |-> "racing", account |-> account,
                   handlers |-> [i \in 1..n |->
                                   [route |-> lineup[i].route, body |-> lineup[i].body,
                                    pc |-> "getUser", user |-> Undefined,
                                    resp |-> Json(0, Undefined)]]]

\* req.user = dbUser; next(): the handler runs up to its first statement.
\* req.user.id throws when req.user is undefined, and the catch answers 500.
Enter(h, dbUser) ==
  IF dbUser = Undefined
  THEN [h EXCEPT !.user = dbUser, !.pc = "done",
                 !.resp = Failure(IF h.route = CreateUserRoute
                                  THEN "Failed to create user" ELSE "Failed to fetch user")]
  ELSE [h EXCEPT !.user = dbUser,
                 !.pc = IF h.route = CreateUserRoute THEN "insert" ELSE "fetch"]

\* One step of handler i: it becomes h and the store st.
Step(i, h, st) ==
  /\ flight' = [flight EXCEPT !.handlers[i] = h]
  /\ users' = st.users
  /\ applications' = st.applications
  /\ notifications' = st.notifications
  /\ UNCHANGED << req, resp, calls, pre >>

\* requireAuth: let dbUser = await storage.getUser(user.id)
AuthGetUser(i) ==
  LET h == flight.handlers[i]
      dbUser == getUser(store, flight.account.id)
  IN /\ h.pc = "getUser"
     /\ Step(i, IF dbUser = Undefined THEN [h EXCEPT !.pc = "authInsert"]
                 ELSE Enter(h, dbUser), store)

\* requireAuth: upsertUser, the insert.
AuthInsert(i) ==
  LET h == flight.handlers[i]
      userData == ProvisionData(flight.account.id, flight.account.email)
      st1 == InsertUser(store, userData)
  IN /\ h.pc = "authInsert"
     /\ IF InsertUserThrows(store, userData)
        THEN Step(i, [h EXCEPT !.pc = "authUpdate"], store)
        ELSE Step(i, Enter(h, Upserted(st1, userData)), st1)

\* requireAuth: upsertUser, the update after the unique violation.
AuthUpdate(i) ==
  LET h == flight.handlers[i]
      userData == ProvisionData(flight.account.id, flight.account.email)
      st1 == UpdateUser(store, userData)
  IN /\ h.pc = "authUpdate"
     /\ Step(i, Enter(h, Upserted(st1, userData)), st1)

\* GET /api/auth/user: res.json(await storage.getUser(req.user.id))
HandlerFetch(i) ==
  LET h == flight.handlers[i] IN
  /\ h.pc = "fetch"
  /\ Step(i, [h EXCEPT !.pc = "done", !.resp = Json(200, getUser(store, h.user.id))],
          store)

\* POST /api/auth/create-user: upsertUser, the insert.
HandlerInsert(i) ==
  LET h == flight.handlers[i]
      userData == CreateUserData(h.user, h.body)
      st1 == InsertUser(store, userData)
  IN /\ h.pc = "insert"
     /\ IF InsertUserThrows(store, userData)
        THEN Step(i, [h EXCEPT !.pc = "update"], store)
        ELSE Step(i, [h EXCEPT !.pc = "done",
                               !.resp = Json(200, Upserted(st1, userData))], st1)

\* POST /api/auth/create-user: upsertUser, the update; res.json(user).
HandlerUpdate(i) ==
  LET h == flight.handlers[i]
      userData == CreateUserData(h.user, h.body)
      st1 == UpdateUser(store, userData)
  IN /\ h.pc = "update"
     /\ Step(i, [h EXCEPT !.pc = "done", !.resp = Json(200, Upserted(st1, userData))],
             st1)

\* The requests in flight: handler i of flight.handlers.
Racer(i) == i \in DOMAIN flight.handlers

ProvisionNext ==
  \/ \E i \in 1..MaxRacers : Racer(i) /\ AuthGetUser(i)
  \/ \E i \in 1..MaxRacers : Racer(i) /\ AuthInsert(i)
  \/ \E i \in 1..MaxRacers : Racer(i) /\ AuthUpdate(i)
  \/ \E i \in 1..MaxRacers : Racer(i) /\ HandlerFetch(i)
  \/ \E i \in 1..MaxRacers : Racer(i) /\ HandlerInsert(i)
  \/ \E i \in 1..MaxRacers : Racer(i) /\ HandlerUpdate(i)

ProvisionSpec == ProvisionInit /\ [][ProvisionNext]_vars

\* ------------------------- concurrent status updates of one application
\* Up to MaxUpdaters PATCH /api/admin/applications/:id/status requests of
\* the administrator for application 1 are in flight together, each with a
\* status.  flight.handlers holds one record per request: the await it is
\* suspended at (pc), the application its lookup found and the response.
RaceStatuses == {"Under Review", "Visa Approved"}

RECURSIVE StatusLineups(_)
StatusLineups(n) ==
  IF n = 0 THEN { << >> }
  ELSE { Append(l, s) : l \in StatusLineups(n - 1), s \in RaceStatuses }

UpdateInit ==
  /\ users = SubmittedStore.users
  /\ applications = SubmittedStore.applications
  /\ notifications = SubmittedStore.notifications
  /\ req = NoRequest
  /\ resp = Json(0, Undefined)
  /\ calls = << >>
  /\ pre = SubmittedStore
  /\ \E n \in 1..MaxUpdaters :
       \E lineup \in StatusLineups(n) :
         flight = [pc |-> "updating", id |-> 1,
                   authorization |-> [scheme |-> "Bearer", token |-> "u1",
                                      email |-> "a@example.com"],
                   handlers |-> [i \in 1..n |->
                                   [status |-> lineup[i], pc |-> "requireAuth",
                                    user |-> Undefined, application |-> Undefined,
                                    updatedApplication |-> Undefined,
                                    resp |-> Json(0, Undefined)]]]

\* requireAuth: the row of the caller is there, so getUser is its only
\* statement.
UpdateRequireAuth(i) ==
  LET h == flight.handlers[i]
      auth == requireAuth(store, flight.authorization)
  IN /\ h.pc = "requireAuth"
     /\ Step(i, IF auth.next /\ ~NoUser(auth)
                 THEN [h EXCEPT !.user = auth.user, !.pc = "getUser"]
                 ELSE [h EXCEPT !.pc = "done",
                                !.resp = IF auth.next
                                         THEN Failure("Failed to update application status")
                                         ELSE auth.resp],
             auth.st)

\* const currentUser = await storage.getUser(req.user.id); the admin check
\* and the status check.
UpdateGetUser(i) ==
  LET h == flight.handlers[i]
      currentUser == getUser(store, h.user.id)
  IN /\ h.pc = "getUser"
     /\ Step(i, IF ~IsAdminUser(currentUser)
                 THEN [h EXCEPT !.pc = "done", !.resp = Forbidden]
                 ELSE [h EXCEPT !.pc = "getAllApplications"], store)

\* const applications = await storage.getAllApplications(); find
UpdateGetAllApplications(i) ==
  LET h == flight.handlers[i]
      application == FindApplication(getAllApplications(store), flight.id)
  IN /\ h.pc = "getAllApplications"
     /\ Step(i, IF application = Undefined
                 THEN [h EXCEPT !.pc = "done",
                                !.resp = Json(404, [message |-> "Application not found"])]
                 ELSE [h EXCEPT !.application = application,
                                !.pc = "updateApplicationStatus"], store)

\* const updatedApplication = await storage.updateApplicationStatus(id, status)
UpdateUpdateApplicationStatus(i) ==
  LET h == flight.handlers[i]
      st1 == updateApplicationStatus(store, flight.id, h.status)
  IN /\ h.pc = "updateApplicationStatus"
     /\ Step(i, [h EXCEPT !.updatedApplication = Updated(st1, flight.id),
                          !.pc = "getCourses"], st1)

UpdateGetCourses(i) ==
  /\ flight.handlers[i].pc = "getCourses"
  /\ Step(i, [flight.handlers[i] EXCEPT !.pc = "getUniversities"], store)

UpdateGetUniversities(i) ==
  /\ flight.handlers[i].pc = "getUniversities"
  /\ Step(i, [flight.handlers[i] EXCEPT !.pc = "createNotification"], store)

\* await storage.createNotification({...}); res.json(updatedApplication)
UpdateCreateNotification(i) ==
  LET h == flight.handlers[i]
      notification == StatusNotification(h.application, h.status)
  IN /\ h.pc = "createNotification"
     /\ IF createNotificationThrows(store, notification, FALSE)
        THEN Step(i, [h EXCEPT !.pc = "done",
                               !.resp = Failure("Failed to update application status")],
                  store)
        ELSE Step(i, [h EXCEPT !.pc = "done", !.resp = Json(200, h.updatedApplication)],
                  createNotification(store, notification))

Updater(i) == i \in DOMAIN flight.handlers

UpdateNext ==
  \/ \E i \in 1..MaxUpdaters : Updater(i) /\ UpdateRequireAuth(i)
  \/ \E i \in 1..MaxUpdaters : Updater(i) /\ UpdateGetUser(i)
  \/ \E i \in 1..MaxUpdaters : Updater(i) /\ UpdateGetAllApplications(i)
  \/ \E i \in 1..MaxUpdaters : Updater(i) /\ UpdateUpdateApplicationStatus(i)
  \/ \E i \in 1..MaxUpdaters : Updater(i) /\ UpdateGetCourses(i)
  \/ \E i \in 1..MaxUpdaters : Updater(i) /\ UpdateGetUniversities(i)
  \/ \E i \in 1..MaxUpdaters : Updater(i) /\ UpdateCreateNotification(i)

UpdateSpec == UpdateInit /\ [][UpdateNext]_vars

Next ==
  \/ PostAuthCreateUser
  \/ PostApplications
  \/ PatchApplicationStatus
  \/ PatchNotificationRead
  \/ PostAdminNotifications
  \/ GetAdminDashboardStats
  \/ GetAdminStats
  \/ GetAdminUsers
  \/ GetAdminApplications
  \/ GetAdminAnalytics
  \/ Done

Spec == Init /\ [][Next]_vars

\* ------------------------------------------------------------- properties
\* The state records the last request (req), the store it found (pre), the
\* response (resp) and the storage calls (calls); a property of "every
\* request" is an invariant over them.
SubmitRoute == "POST /api/applications"
StatusRoute == "PATCH /api/admin/applications/:id/status"
ReadRoute == "PATCH /api/notifications/:id/read"
BroadcastRoute == "POST /api/admin/notifications"
AdminRoutes ==
  { "GET /api/admin/stats", "GET /api/admin/users", "GET /api/admin/applications",
    "GET /api/admin/analytics", StatusRoute, BroadcastRoute }

\* The subject of the last request's token ("" when the middleware refused it).
Caller == VerifiedSubject(req.authorization)

\* The rows the last request appended to a table.
Added(before, after) == SubSeq(after, Len(before) + 1, Len(after))
Extends(before, after) ==
  Len(before) <= Len(after) /\ SubSeq(after, 1, Len(before)) = before

\* The caller of the last request has a row in the users table (the one the
\* request found, or the one the middleware created for it).
Resolved == \E i \in DOMAIN users : users[i].id = Caller

\* The last request was a submit that passed the middleware with a local
\* user record, and validation.
ValidSubmit ==
  req.route = SubmitRoute /\ Caller # "" /\ Resolved /\ req.body.shape = "ok"

\* The users table holds a row of this id with the admin flag set.  (No
\* request changes the flag, so it is the flag the last request found.)
HasAdminFlag(id) == \E i \in DOMAIN users : users[i].id = id /\ users[i].isAdmin

\* The last request was a status update by an administrator that carried a
\* status, so the handler looked the application up.
StatusLookup ==
  /\ req.route = StatusRoute /\ Caller # ""
  /\ HasAdminFlag(Caller)
  /\ req.body.status # ""

\* C1: every submission that passes validation persists one application
\* whose status is "Submitted", whatever status the body carried; the
\* response carries that record.
C1_SubmitStatusForced ==
  ValidSubmit =>
    /\ Len(applications) = Len(pre.applications) + 1
    /\ applications[Len(applications)].status = "Submitted"
    /\ resp.code = 200 /\ resp.body.status = "Submitted"

C1_Witness ==
  /\ ValidSubmit /\ req.body.status = "Visa Approved"
  /\ resp.code = 200
  /\ applications[Len(applications)].status = "Submitted"

\* C2 as claimed: every submit that persists an application appends exactly
\* one notification owned by the submitting user.
C2_OneNotificationPerSubmit ==
  (req.route = SubmitRoute /\ Len(applications) > Len(pre.applications)) =>
    /\ Extends(pre.notifications, notifications)
    /\ Len(notifications) = Len(pre.notifications) + 1
    /\ notifications[Len(notifications)].userId = Caller

\* C2 amended: a submit that persists an application appends exactly one
\* notification, unread, owned by the submitting user and titled
\* "Application Submitted Successfully", unless the insert of the
\* notification itself fails, and then it appends none.  The message is the
\* generic one when no course is selected, the lookup throws or finds no
\* course, and names university and course when the lookup resolves.
C2_OneNotificationUnlessInsertFails ==
  (req.route = SubmitRoute /\ Len(applications) > Len(pre.applications)) =>
    /\ Extends(pre.notifications, notifications)
    /\ IF req.fault.createNotification = 1
       THEN notifications = pre.notifications
       ELSE /\ Len(notifications) = Len(pre.notifications) + 1
            /\ LET n == notifications[Len(notifications)]
                   resolves == /\ Len(req.body.selectedCourses) > 0
                               /\ ~req.fault.getCourseById
                               /\ getCourseById(req.body.selectedCourses[1]) # Undefined
               IN /\ n.userId = Caller
                  /\ n.title = "Application Submitted Successfully"
                  /\ ~n.isRead
                  /\ IF resolves
                     THEN n.message.template =
                            "Your application to {university} for {course} has been submitted"
                     ELSE n.message = [template |-> "Your application #{id} has been submitted",
                                       id |-> applications[Len(applications)].id]

\* A submit whose course lookup threw and which still notified its user.
C2_Witness ==
  /\ req.route = SubmitRoute /\ Len(applications) > Len(pre.applications)
  /\ Len(req.body.selectedCourses) > 0 /\ req.fault.getCourseById
  /\ Len(notifications) = Len(pre.notifications) + 1
  /\ notifications[Len(notifications)].userId = Caller
  /\ notifications[Len(notifications)].message.template =
       "Your application #{id} has been submitted"

\* C3: when the insert of the notification fails during a valid submit, the
\* application stays persisted and the response is 200 with that record.
C3_SubmitSurvivesNotificationFailure ==
  (ValidSubmit /\ req.fault.createNotification = 1) =>
    /\ resp.code = 200
    /\ Len(applications) = Len(pre.applications) + 1
    /\ resp.body = applications[Len(applications)]
    /\ resp.body.userId = Caller

C3_Witness ==
  /\ ValidSubmit /\ req.fault.createNotification = 1
  /\ resp.code = 200
  /\ Len(applications) = Len(pre.applications) + 1
  /\ notifications = pre.notifications

\* C4 as claimed, step by step (the counts of status writes and of status
\* notifications of an application stay equal exactly when every request
\* that writes a status also adds one such notification): a request that
\* changed the status of an application appended exactly one
\* "Application Status Updated" notification owned by its owner.
C4_StatusWriteNotified ==
  \A i \in DOMAIN pre.applications :
    applications[i].status # pre.applications[i].status =>
      /\ Len(notifications) = Len(pre.notifications) + 1
      /\ notifications[Len(notifications)].title = "Application Status Updated"
      /\ notifications[Len(notifications)].userId = applications[i].userId

\* C5: a status update whose id resolves to no application changes no
\* application and adds no notification, and answers 404 once it is past
\* the admin gate and the status check.
C5_UnknownApplicationNotFound ==
  (req.route = StatusRoute /\ req.id \notin DOMAIN pre.applications) =>
    /\ applications = pre.applications
    /\ notifications = pre.notifications
    /\ StatusLookup => resp.code = 404

\* An unknown id asked for while an application exists.
C5_Witness ==
  /\ StatusLookup /\ req.id \notin DOMAIN pre.applications
  /\ Len(pre.applications) > 0
  /\ resp.code = 404

\* C6: when the insert of the notification fails during a status update
\* that found its application, the response is the 500 error, not the
\* updated application.
C6_StatusUpdateFailsWithNotification ==
  (StatusLookup /\ req.id \in DOMAIN pre.applications
     /\ req.fault.createNotification = 1) =>
    /\ resp.code = 500
    /\ resp.body = [message |-> "Failed to update application status"]

C6_Witness ==
  /\ StatusLookup /\ req.id \in DOMAIN pre.applications
  /\ req.fault.createNotification = 1
  /\ resp.code = 500
  /\ notifications = pre.notifications

\* C7: on every admin route a caller with a verified token whose user row
\* exists and lacks the admin flag gets 403, and no application and no notification
\* changes.  With the caller's row stored, the request's only storage calls
\* are the two loads of that row (middleware and handler) and the store is
\* left as found; a caller without a row gets it created by the middleware
\* first, and nothing else.
C7_NonAdminForbidden ==
  (req.route \in AdminRoutes /\ Caller # "" /\ Resolved /\ ~HasAdminFlag(Caller)) =>
    /\ resp = Json(403, [message |-> "Admin access required"])
    /\ applications = pre.applications
    /\ notifications = pre.notifications
    /\ IF \E i \in DOMAIN pre.users : pre.users[i].id = Caller
       THEN calls = << "getUser", "getUser" >> /\ users = pre.users
       ELSE /\ calls = << "getUser", "upsertUser", "getUser" >>
            /\ users = Append(pre.users, [id |-> Caller, email |-> req.authorization.email,
                                          firstName |-> "", isAdmin |-> FALSE])

\* A non-admin with a stored row asking for a status update of an existing
\* application.
C7_Witness ==
  /\ req.route = StatusRoute /\ Caller # "" /\ ~HasAdminFlag(Caller)
  /\ \E i \in DOMAIN pre.users : pre.users[i].id = Caller
  /\ req.id \in DOMAIN applications /\ req.body.status # ""
  /\ resp.code = 403 /\ store = pre

\* C8: markRead of an existing notification answers 200 and leaves it read
\* and every other notification as it was; on a notification that is
\* already read it changes nothing in the store.
C8_MarkReadIdempotent ==
  (req.route = ReadRoute /\ Caller # "" /\ req.id \in DOMAIN pre.notifications) =>
    /\ resp = Json(200, [success |-> TRUE])
    /\ notifications[req.id].isRead
    /\ DOMAIN notifications = DOMAIN pre.notifications
    /\ \A i \in DOMAIN notifications :
         i # req.id => notifications[i] = pre.notifications[i]
    /\ pre.notifications[req.id].isRead =>
         /\ notifications = pre.notifications
         /\ applications = pre.applications
         /\ (getUser(pre, Caller) # Undefined => users = pre.users)

\* A second markRead of the same notification.
C8_Witness ==
  /\ req.route = ReadRoute /\ Caller # "" /\ req.id \in DOMAIN pre.notifications
  /\ pre.notifications[req.id].isRead
  /\ resp.code = 200 /\ notifications[req.id].isRead

\* C9 as claimed: markRead answers Not-Found exactly when the id is of no
\* notification, and then changes none.
C9_NotFoundIffMissing ==
  (req.route = ReadRoute /\ Caller # "") =>
    /\ resp.code = 404 <=> req.id \notin DOMAIN pre.notifications
    /\ req.id \notin DOMAIN pre.notifications => notifications = pre.notifications

\* C10: every request leaves the notifications it found in place, appends
\* only unread ones, and leaves read every notification that was read.
C10_NotificationLifecycle ==
  /\ Extends([i \in DOMAIN pre.notifications |-> pre.notifications[i].id],
             [i \in DOMAIN notifications |-> notifications[i].id])
  /\ \A i \in DOMAIN Added(pre.notifications, notifications) :
       ~Added(pre.notifications, notifications)[i].isRead
  /\ \A i \in DOMAIN pre.notifications :
       pre.notifications[i].isRead => notifications[i].isRead

\* A notification that was read before a status update wrote a status and
\* is read after it.
C10_Witness ==
  /\ req.route = StatusRoute
  /\ applications # pre.applications
  /\ \E i \in DOMAIN pre.notifications :
       pre.notifications[i].isRead /\ notifications[i].isRead

\* ------------------------------------------- properties of the statistics
\* (StatsSpec: req is the computation applied, resp.body its result.)
\* round(100 * n / d), a half rounded up, in the integers.
ExactRoundPercent(n, d) == (200 * n + d) \div (2 * d)

\* The distinct user ids owning an application, and those owning one whose
\* status is "Visa Approved".
Owners == { applications[i].userId : i \in DOMAIN applications }
ApprovedOwners ==
  { applications[i].userId :
      i \in { j \in DOMAIN applications : applications[j].status = "Visa Approved" } }

StatsApplied == req.route = StatsRoute /\ resp.code = 200

\* C11: computeStats on a store without users, applications, courses and
\* universities returns 0 for every count and for both rates.
C11_EmptyStoreAllZero ==
  (StatsApplied /\ users = << >> /\ applications = << >>
     /\ req.body.courses = {} /\ req.body.universities = {}) =>
    resp.body = [totalUsers |-> 0, totalApplications |-> 0, totalCourses |-> 0,
                 totalUniversities |-> 0, conversionRate |-> 0,
                 finalConversionRate |-> 0]

C11_Witness ==
  /\ StatsApplied /\ users = << >> /\ applications = << >>
  /\ req.body.courses = {} /\ req.body.universities = {}
  /\ resp.body.conversionRate = 0 /\ resp.body.totalUsers = 0

\* C12 as claimed: for every population, conversionRate is
\* round(100 * D / U), U the number of users and D the number of distinct
\* users owning an application, and 0 when U = 0.
C12_ConversionRateRounded ==
  StatsApplied =>
    resp.body.conversionRate =
      IF Len(users) = 0 THEN 0 ELSE ExactRoundPercent(Cardinality(Owners), Len(users))

\* C13 as claimed: for every population, finalConversionRate is
\* round(100 * V / D), D the number of distinct users owning an application
\* and V those owning one in status "Visa Approved", and 0 when D = 0.
C13_FinalConversionRateRounded ==
  StatsApplied =>
    resp.body.finalConversionRate =
      IF Owners = {} THEN 0
      ELSE ExactRoundPercent(Cardinality(ApprovedOwners), Cardinality(Owners))

\* ------------------------------------------------ properties of the gateway
\* C15 as claimed: every request with a verified token of subject s is
\* handled with a local user record of id s, a row of that id being in the
\* users table then (rows are never deleted, so it is there afterwards),
\* whatever rows the table held before.
C15_GatewayResolvesUser ==
  (req.route # "" /\ Caller # "") => Resolved

\* C16: a request without a verified bearer token (no header, another
\* scheme, a token the provider rejects) gets 401 Unauthorized; no storage
\* method is called for it and the store stays as it was.
C16_UnverifiedUnauthorized ==
  (req.route # "" /\ Caller = "") =>
    /\ resp = Json(401, [message |-> "Unauthorized"])
    /\ calls = << >>
    /\ store = pre

\* A header of another scheme that carries a valid token, refused on a
\* store that holds an application.
C16_Witness ==
  /\ req.route = StatusRoute
  /\ req.authorization.scheme = "Basic" /\ req.authorization.token \in Subjects
  /\ resp.code = 401
  /\ Len(applications) > 0 /\ store = pre

\* C17 as claimed: a submit whose body lacks a required field or has a
\* malformed one is answered 400, and persists no application and no
\* notification.
C17_InvalidBodyRejected ==
  (req.route = SubmitRoute /\ Caller # "" /\ req.body.shape # "ok") =>
    /\ resp.code = 400
    /\ applications = pre.applications
    /\ notifications = pre.notifications

\* ------------------------------------------- properties of the broadcast
\* (C18, C19: FanoutSpec.)
\* The last request was a broadcast by an administrator that carried type,
\* title and message, so the handler went on to its recipients.
BroadcastAdmitted ==
  /\ req.route = BroadcastRoute /\ Caller # ""
  /\ HasAdminFlag(Caller)
  /\ req.body.type # "" /\ req.body.title # "" /\ req.body.message # ""

\* How many of the rows are owned by the user id.
Owned(rows, id) == Cardinality({ i \in DOMAIN rows : rows[i].userId = id })
Occurrences(ids, id) == Cardinality({ i \in DOMAIN ids : ids[i] = id })

\* C18 as claimed: in every outcome of a broadcast, also when the creation
\* failed for some recipient after k were served, the response reports the
\* number of notifications the broadcast persisted.
C18_BroadcastReportsCount ==
  BroadcastAdmitted =>
    /\ "sent" \in DOMAIN resp.body
    /\ resp.body.sent = Len(notifications) - Len(pre.notifications)

\* C19: a successful broadcast leaves the notifications it found and adds,
\* unread and with its type, title and message, one notification per
\* recipient and none for anyone else: the recipients are the rows of the
\* users table when userIds is empty, and the listed ids otherwise.
C19_BroadcastRecipients ==
  (BroadcastAdmitted /\ resp.code = 200) =>
    LET added == Added(pre.notifications, notifications)
        recipients == IF Len(req.body.userIds) = 0
                      THEN [i \in DOMAIN pre.users |-> pre.users[i].id]
                      ELSE req.body.userIds
    IN /\ Extends(pre.notifications, notifications)
       /\ Len(added) = Len(recipients)
       /\ \A i \in DOMAIN added :
            /\ Occurrences(recipients, added[i].userId) = Owned(added, added[i].userId)
            /\ added[i].type = req.body.type /\ added[i].title = req.body.title
            /\ added[i].message = req.body.message /\ ~added[i].isRead
       /\ resp.body.sent = Len(recipients)

\* A broadcast without userIds on a table of three users, and one to two
\* listed users of that table.
C19_Witness ==
  /\ BroadcastAdmitted /\ resp.code = 200
  /\ Len(pre.users) = 3
  /\ \/ Len(req.body.userIds) = 0 /\ Len(notifications) = Len(pre.notifications) + 3
     \/ Len(req.body.userIds) = 2 /\ Len(notifications) = Len(pre.notifications) + 2
                                  /\ Len(pre.notifications) > 0

\* C20: in every reachable state (Spec: submits, status updates,
\* broadcasts, also to listed ids that are no users) the userId of every
\* application and of every notification is the id of a row of users.
C20_ReferentialIntegrity ==
  /\ \A i \in DOMAIN applications :
       \E j \in DOMAIN users : users[j].id = applications[i].userId
  /\ \A i \in DOMAIN notifications :
       \E j \in DOMAIN users : users[j].id = notifications[i].userId

\* A broadcast to a list with an id that is no user, refused for that id,
\* while an application is there.
C20_Witness ==
  /\ BroadcastAdmitted
  /\ \E i \in DOMAIN req.body.userIds :
       \A j \in DOMAIN users : users[j].id # req.body.userIds[i]
  /\ req.fault.createNotification = 0
  /\ resp.code = 500
  /\ Len(applications) > 0

C22_AdminDecisionFresh ==
  (req.route \in AdminRoutes /\ Caller # "" /\ Resolved) =>
    (resp.code = 403 <=> ~HasAdminFlag(Caller))

\* A user admitted by an earlier request is refused after the flag was
\* cleared, having asked for a status update of an existing application.
C22_Witness ==
  /\ req.route = StatusRoute /\ req.id \in DOMAIN applications
  /\ Caller \in flight.admitted
  /\ ~HasAdminFlag(Caller)
  /\ resp.code = 403

\* --------------------------- properties of concurrent requests of an identity
\* (ProvisionSpec.)
\* Every request of the identity has been answered.
AllAnswered ==
  flight.pc = "racing" /\ \A i \in DOMAIN flight.handlers : flight.handlers[i].pc = "done"

\* The identity had no row when its requests began.
FirstRequests == \A i \in DOMAIN pre.users : pre.users[i].id # flight.account.id

RowsOf(id) == { i \in DOMAIN users : users[i].id = id }

\* C21 as claimed: when the concurrent first requests of an identity have
\* all been answered, whatever the interleaving of their statements, the
\* users table holds exactly one row of its id and none of the requests
\* has failed.
C21_ProvisionedOnce ==
  (AllAnswered /\ FirstRequests) =>
    /\ Cardinality(RowsOf(flight.account.id)) = 1
    /\ \A i \in DOMAIN flight.handlers : flight.handlers[i].resp.code = 200

\* ------------------------------------------------ properties of ownership
\* C25 as claimed: a response that carries the fleet-wide statistics (the
\* totals of users, applications, courses and universities and a
\* conversion rate) goes to a caller whose stored row has the admin flag.
C25_StatsOnlyToAdmins ==
  (req.route # "" /\ resp.code = 200
     /\ {"totalUsers", "totalApplications", "totalCourses", "totalUniversities",
         "conversionRate"} \subseteq DOMAIN resp.body) =>
    HasAdminFlag(Caller)

\* C26 as claimed: the read flag of a notification changes only in a
\* request of the user who owns it.
C26_ReadFlagOwnerOnly ==
  \A i \in DOMAIN pre.notifications :
    notifications[i].isRead # pre.notifications[i].isRead =>
      notifications[i].userId = Caller

\* C27: every application a submit persists has the id of the verified
\* caller as its userId, whatever userId key the body carried.
C27_SubmitOwnedByCaller ==
  req.route = SubmitRoute =>
    \A i \in DOMAIN Added(pre.applications, applications) :
      Added(pre.applications, applications)[i].userId = Caller

\* A submit of u2 whose body names the administrator u1 as userId.
C27_Witness ==
  /\ ValidSubmit /\ Caller = "u2" /\ req.body.userId = "u1"
  /\ resp.code = 200
  /\ Len(applications) = Len(pre.applications) + 1
  /\ applications[Len(applications)].userId = "u2"

\* C28: every request leaves the users rows it found in place with the
\* admin flag they had, and the rows it adds (provisioning by requireAuth)
\* have the flag off, whatever the body carried.
C28_AdminFlagUnchanged ==
  /\ \A i \in DOMAIN pre.users :
       /\ i \in DOMAIN users
       /\ users[i].id = pre.users[i].id
       /\ users[i].isAdmin = pre.users[i].isAdmin
  /\ \A i \in DOMAIN Added(pre.users, users) : ~Added(pre.users, users)[i].isAdmin

\* POST /api/auth/create-user with isAdmin: true in the body, by a user
\* without the flag, answered with the row of the user.
C28_Witness ==
  /\ req.route = CreateUserRoute /\ Caller # "" /\ req.body.isAdmin
  /\ resp.code = 200 /\ resp.body.id = Caller
  /\ ~resp.body.isAdmin /\ ~HasAdminFlag(Caller)
  /\ calls[Len(calls)] = "upsertUser"

\* ------------------------------ properties of concurrent status updates
\* (UpdateSpec.)
\* The "Application Status Updated" notifications of a user, oldest first.
StatusNotificationsOf(userId) ==
  SelectSeq(notifications,
            LAMBDA n : n.userId = userId /\ n.title = "Application Status Updated")

\* C24 as claimed: when two concurrent status updates of an application
\* have both completed, the newest "Application Status Updated"
\* notification of the application's owner names the status persisted on
\* the application.
C24_NewestNotificationNamesStatus ==
  (/\ flight.pc = "updating" /\ Len(flight.handlers) = 2
   /\ \A i \in DOMAIN flight.handlers :
        flight.handlers[i].pc = "done" /\ flight.handlers[i].resp.code = 200) =>
    LET application == applications[flight.id]
        ns == StatusNotificationsOf(application.userId)
    IN /\ Len(ns) > 0
       /\ ns[Len(ns)].message.status = application.status

\* C29 as claimed: in every response of GET /api/admin/stats, whatever
\* statements of other requests ran between its reads (RaceSpec),
\* conversionRate and finalConversionRate are integers in 0..100.
C29_RatesWithinHundred ==
  (req.route = StatsRoute /\ flight.pc = "done" /\ resp.code = 200) =>
    /\ resp.body.conversionRate \in 0..100
    /\ resp.body.finalConversionRate \in 0..100

\* C14 as claimed: the result of a computeStats call describes one single
\* state that the store was in at some moment during the call (RaceSpec:
\* flight.seen holds those states; "describes" is the computation itself
\* applied to that state).
C14_StatsSnapshot ==
  (req.route = StatsRoute /\ flight.pc = "done" /\ resp.code = 200) =>
    \E st \in flight.seen : resp.body = ComputeStats(st)

====
